---- MODULE Spec2Model ----
(***************************************************************************)
(* The chat page's streaming client: send() of static/app.js and of its    *)
(* older copy without a loading overlay, the two trigger bindings, and the *)
(* browser objects send() talks to (fetch, Response, the body reader and   *)
(* TextDecoder).                                                           *)
(*                                                                         *)
(* Text is a sequence of code points; a byte is a number in 0..255.  Both  *)
(* copies of the script are driven by the same events, so every page state *)
(* is kept once per copy ("app": app.js, "part": the copy without the      *)
(* overlay).  out.scrollTop is written by send() and read by nothing, and  *)
(* is left out.                                                            *)
(***************************************************************************)
EXTENDS Integers, Sequences, FiniteSets, TLC

\* ------------------------------------------------------------- bounds
\* send() invocations in one behaviour
MaxCalls == 2
\* bytes one response stream delivers
MaxStreamBytes == 2
\* bytes the one stream of SpecStream delivers
MaxWideBytes == 4

\* ------------------------------------------------------------- text
\* 'Please enter a message.'
EmptyMsg == <<80, 108, 101, 97, 115, 101, 32, 101, 110, 116, 101, 114, 32, 97, 32,
              109, 101, 115, 115, 97, 103, 101, 46>>
\* 'Error '
ErrorPrefix == <<69, 114, 114, 111, 114, 32>>
\* ': '
ColonSpace == <<58, 32>>
\* 'Streaming not supported by the browser/connection.'
NoStreamMsg == <<83, 116, 114, 101, 97, 109, 105, 110, 103, 32, 110, 111, 116, 32,
                 115, 117, 112, 112, 111, 114, 116, 101, 100, 32, 98, 121, 32, 116,
                 104, 101, 32, 98, 114, 111, 119, 115, 101, 114, 47, 99, 111, 110,
                 110, 101, 99, 116, 105, 111, 110, 46>>
\* 'Network error: '
NetErrPrefix == <<78, 101, 116, 119, 111, 114, 107, 32, 101, 114, 114, 111, 114, 58, 32>>
\* '{"prompt":'   and   '}'
JsonOpen == <<123, 34, 112, 114, 111, 109, 112, 116, 34, 58>>
JsonClose == <<125>>

\* The code points String.prototype.trim strips (WhiteSpace and LineTerminator).
WhiteSpace == {9, 10, 11, 12, 13, 32, 160, 5760, 8232, 8233, 8239, 8287, 12288, 65279}
                 \cup (8192..8202)

RECURSIVE TrimStart(_)
TrimStart(s) ==
    IF s = <<>> THEN <<>>
    ELSE IF Head(s) \in WhiteSpace THEN TrimStart(Tail(s)) ELSE s

RECURSIVE TrimEnd(_)
TrimEnd(s) ==
    IF s = <<>> THEN <<>>
    ELSE IF s[Len(s)] \in WhiteSpace THEN TrimEnd(SubSeq(s, 1, Len(s) - 1)) ELSE s

\* fault: the value used untrimmed
TrimKeepsBlanks(s) == s
\* value.trim()
Trim(s) == TrimEnd(TrimStart(s))

\* Number to its decimal digits, as a template literal renders res.status.
RECURSIVE ToDecimal(_)
ToDecimal(n) ==
    IF n < 10 THEN <<48 + n>> ELSE ToDecimal(n \div 10) \o <<48 + (n % 10)>>

\* One hexadecimal digit, lower case.
HexDigit(n) == IF n < 10 THEN 48 + n ELSE 87 + n

\* JSON.stringify's rendering of one code unit inside a string.
JsonQuoteChar(c) ==
    CASE c = 34 -> <<92, 34>>
      [] c = 92 -> <<92, 92>>
      [] c = 8  -> <<92, 98>>
      [] c = 9  -> <<92, 116>>
      [] c = 10 -> <<92, 110>>
      [] c = 12 -> <<92, 102>>
      [] c = 13 -> <<92, 114>>
      [] c < 32 /\ c \notin {8, 9, 10, 12, 13} ->
            <<92, 117, 48, 48, HexDigit(c \div 16), HexDigit(c % 16)>>
      [] OTHER -> <<c>>

RECURSIVE JsonQuoteChars(_)
JsonQuoteChars(s) ==
    IF s = <<>> THEN <<>> ELSE JsonQuoteChar(Head(s)) \o JsonQuoteChars(Tail(s))

\* fault: the prompt pasted between quotes, unescaped
JsonStringifyUnescaped(prompt) == JsonOpen \o <<34>> \o prompt \o <<34>> \o JsonClose
\* JSON.stringify({ prompt })
JsonStringify(prompt) == JsonOpen \o <<34>> \o JsonQuoteChars(prompt) \o <<34>> \o JsonClose

\* ------------------------------------------------------------- TextDecoder
\* U+FFFD, what a non-fatal decoder emits for a malformed sequence, and U+FEFF,
\* the byte order mark a decoder without ignoreBOM drops at the start.
Replacement == <<65533>>
ByteOrderMark == <<65279>>

\* new TextDecoder(): UTF-8, not fatal, ignoreBOM false.
NewDecoder ==
    [cp |-> 0, seen |-> 0, needed |-> 0, lower |-> 128, upper |-> 191,
     bomSeen |-> FALSE, doNotFlush |-> FALSE]

\* The decoder's state with the sequence in progress dropped.
ResetSequence(d) ==
    [d EXCEPT !.cp = 0, !.seen = 0, !.needed = 0, !.lower = 128, !.upper = 191]

\* The UTF-8 decoder's handler for one byte: the new state, the code points
\* emitted, and whether the byte is put back to be handled again.
Utf8Handler(d, b) ==
    IF d.needed = 0
    THEN CASE b <= 127 -> [st |-> d, emit |-> <<b>>, again |-> FALSE]
           [] b \in 194..223 ->
                [st |-> [d EXCEPT !.needed = 1, !.cp = b % 32],
                 emit |-> <<>>, again |-> FALSE]
           [] b \in 224..239 ->
                [st |-> [d EXCEPT !.needed = 2, !.cp = b % 16,
                                  !.lower = IF b = 224 THEN 160 ELSE 128,
                                  !.upper = IF b = 237 THEN 159 ELSE 191],
                 emit |-> <<>>, again |-> FALSE]
           [] b \in 240..244 ->
                [st |-> [d EXCEPT !.needed = 3, !.cp = b % 8,
                                  !.lower = IF b = 240 THEN 144 ELSE 128,
                                  !.upper = IF b = 244 THEN 143 ELSE 191],
                 emit |-> <<>>, again |-> FALSE]
           [] OTHER -> [st |-> d, emit |-> Replacement, again |-> FALSE]
    ELSE IF b < d.lower \/ b > d.upper
         THEN [st |-> ResetSequence(d), emit |-> Replacement, again |-> TRUE]
         ELSE IF d.seen + 1 = d.needed
              THEN [st |-> ResetSequence(d),
                    emit |-> <<d.cp * 64 + (b % 64)>>, again |-> FALSE]
              ELSE [st |-> [d EXCEPT !.cp = d.cp * 64 + (b % 64), !.seen = d.seen + 1,
                                     !.lower = 128, !.upper = 191],
                    emit |-> <<>>, again |-> FALSE]

\* The handler run over a chunk of bytes: the state reached and the code points.
RECURSIVE RunDecoder(_, _)
RunDecoder(d, bytes) ==
    IF bytes = <<>> THEN [st |-> d, emit |-> <<>>]
    ELSE LET r == Utf8Handler(d, Head(bytes))
             rest == RunDecoder(r.st, IF r.again THEN bytes ELSE Tail(bytes))
         IN  [st |-> rest.st, emit |-> r.emit \o rest.emit]

\* End of input: a sequence still in progress is malformed.
EndOfQueue(d) ==
    IF d.needed # 0 THEN [st |-> [d EXCEPT !.needed = 0], emit |-> Replacement]
    ELSE [st |-> d, emit |-> <<>>]

\* The decoded code points made into the returned string: the first code point
\* of a stream is dropped when it is the byte order mark.
Serialize(d, cps) ==
    IF cps = <<>> \/ d.bomSeen THEN [st |-> d, text |-> cps]
    ELSE [st |-> [d EXCEPT !.bomSeen = TRUE],
          text |-> IF <<Head(cps)>> = ByteOrderMark THEN Tail(cps) ELSE cps]

\* fault: every chunk decoded on its own, as without { stream: true }
DecodeNoStream(d, bytes, stream) ==
    LET d0 == [NewDecoder EXCEPT !.doNotFlush = FALSE]
        run == RunDecoder(d0, bytes)
        fin == EndOfQueue(run.st)
    IN  Serialize(fin.st, run.emit \o fin.emit)
\* decoder.decode(bytes, { stream }): [st: the decoder afterwards, text: the string].
Decode(d, bytes, stream) ==
    LET d0 == IF d.doNotFlush THEN d ELSE NewDecoder
        d1 == [d0 EXCEPT !.doNotFlush = stream]
        run == RunDecoder(d1, bytes)
        fin == IF stream THEN [st |-> run.st, emit |-> <<>>] ELSE EndOfQueue(run.st)
    IN  Serialize(fin.st, run.emit \o fin.emit)

\* ------------------------------------------------------------- errors
\* 'Error', 'TypeError', 'timeout'
NameError == <<69, 114, 114, 111, 114>>
NameTypeError == <<84, 121, 112, 101, 69, 114, 114, 111, 114>>
MsgTimeout == <<116, 105, 109, 101, 111, 117, 116>>

\* Error.prototype.toString
ErrorToString(e) ==
    IF e.message = <<>> THEN e.name
    ELSE IF e.name = <<>> THEN e.message
    ELSE e.name \o ColonSpace \o e.message

\* (e?.message || e), as the string concatenation renders it
CaughtText(e) == IF e.message # <<>> THEN e.message ELSE ErrorToString(e)

\* res.ok
Ok(status) == status \in 200..299

\* ------------------------------------------------------------- inputs
Variants == {"app", "part"}
Calls == 1..MaxCalls

\* what the user has typed into #prompt: '', space and tab, 'a', ' a " '
PromptValues == {<<>>, <<32, 9>>, <<97>>, <<32, 97, 32, 34, 32>>}
\* the keys pressed in #prompt
Keys == {"Enter", "a"}
\* response statuses, and the bodies of error responses: '' and 'bad request'
Statuses == {200, 299, 300, 400}
Bodies == {<<>>, <<98, 97, 100, 32, 114, 101, 113, 117, 101, 115, 116>>}
\* the bytes of a streamed body: 'a', and the lead and continuation byte of U+00E9
StreamBytes == {97, 195, 169}
\* what fetch, res.text() and reader.read() reject with
Thrown == {[name |-> NameError, message |-> MsgTimeout],
           [name |-> NameTypeError, message |-> <<>>]}

RECURSIVE SeqsUpTo(_, _)
SeqsUpTo(S, n) ==
    IF n = 0 THEN {<<>>}
    ELSE LET shorter == SeqsUpTo(S, n - 1)
         IN  shorter \cup {Append(q, x) : q \in shorter, x \in S}

\* the chunks a read can deliver after `got` bytes: never empty
ChunksAfter(got) == SeqsUpTo(StreamBytes, MaxStreamBytes - Len(got)) \ {<<>>}

\* the bytes of SpecStream's body: 'a'; A9, a continuation byte; the lead bytes of
\* two-, three- and four-byte sequences; EF BB BF, the byte order mark
WideBytes == {97, 169, 195, 226, 240, 239, 187, 191}
WideChunksAfter(got) == SeqsUpTo(WideBytes, MaxWideBytes - Len(got)) \ {<<>>}

NoRequest == [url |-> "", method |-> "", contentType |-> "", body |-> <<>>]
NoResponse == [status |-> 0, body |-> <<>>]
NoError == [name |-> <<>>, message |-> <<>>]
\* no task run yet; call is the invocation a task starts or resumes
NoEvent == [type |-> "none", key |-> "", ctrlKey |-> FALSE, metaKey |-> FALSE, call |-> 0]

\* ------------------------------------------------------------- state
VARIABLES
    promptValue,   \* #prompt's value
    overlay,       \* whether the page has a #loading element
    dom,           \* per copy: out (textContent of #out), disabled (of #send),
                   \* show (#loading has class 'show'), cleanups (per call, how
                   \* often the re-enabling code ran)
    pc,            \* per call: "idle", or the await it is suspended at
                   \* ("fetch", "text", "read"), or "done"
    exit,          \* per call: the path it returned by
    req,           \* per call: the request in flight
    res,           \* per call: the error response fetch resolved with
    decoder,       \* per call: the TextDecoder
    received,      \* per call: the bytes the reader has delivered
    did,           \* per call: the requests, reads and flushes it has made
    caught,        \* per call: the error its catch block caught
    writers,       \* the call that last assigned #out, and those that have
                   \* appended to it since
    overlapped,    \* whether send() was ever invoked while a call was in flight
    released,      \* the calls in flight during which another call's cleanup ran
    event          \* the task the event loop ran last

vars == <<promptValue, overlay, dom, pc, exit, req, res, decoder, received, did,
          caught, writers, overlapped, released, event>>

NewDom == [out |-> <<>>, disabled |-> FALSE, show |-> FALSE,
           cleanups |-> [i \in Calls |-> 0]]

Init ==
    /\ promptValue = <<>>
    /\ overlay \in BOOLEAN
    /\ dom = [v \in Variants |-> NewDom]
    /\ pc = [i \in Calls |-> "idle"]
    /\ exit = [i \in Calls |-> "none"]
    /\ req = [i \in Calls |-> NoRequest]
    /\ res = [i \in Calls |-> NoResponse]
    /\ decoder = [i \in Calls |-> NewDecoder]
    /\ received = [i \in Calls |-> <<>>]
    /\ did = [i \in Calls |-> [requests |-> 0, reads |-> 0, flushes |-> 0]]
    /\ caught = [i \in Calls |-> NoError]
    /\ writers = {}
    /\ overlapped = FALSE
    /\ released = {}
    /\ event = NoEvent

InFlight(i) == pc[i] \in {"fetch", "text", "read"}

\* ------------------------------------------------------------- the page
SetOut(d, text) == [d EXCEPT !.out = text]
AppendOut(d, text) == [d EXCEPT !.out = @ \o text]

\* fault: #out not cleared at the start of a request
StartAppNoClear(d) ==
    [d EXCEPT !.disabled = TRUE, !.show = IF overlay THEN TRUE ELSE @]
\* fault: the request starts without showing the overlay
StartAppNoOverlay(d) == [d EXCEPT !.out = <<>>, !.disabled = TRUE]
\* fault: the request starts without disabling the button
StartAppEnabled(d) ==
    [d EXCEPT !.out = <<>>, !.show = IF overlay THEN TRUE ELSE @]
\* app.js: out.textContent = ''; sendBtn.disabled = true; overlay shown
StartApp(d) ==
    [d EXCEPT !.out = <<>>, !.disabled = TRUE, !.show = IF overlay THEN TRUE ELSE @]
\* the copy without overlay
StartPart(d) == [d EXCEPT !.out = <<>>, !.disabled = TRUE]

\* fault: a finally block that forgets the overlay
FinallyAppKeepsOverlay(d, i) == [d EXCEPT !.disabled = FALSE, !.cleanups[i] = @ + 1]
\* app.js: the finally block, run for call i
FinallyApp(d, i) ==
    [d EXCEPT !.disabled = FALSE, !.show = IF overlay THEN FALSE ELSE @,
              !.cleanups[i] = @ + 1]
\* fault: a finally block that leaves the button disabled
FinallyPartKeepsDisabled(d, i) == [d EXCEPT !.cleanups[i] = @ + 1]
\* the copy without overlay: its finally block, and the same statement in its
\* error-status and no-body branches
FinallyPart(d, i) == [d EXCEPT !.disabled = FALSE, !.cleanups[i] = @ + 1]
ReenablePart(d, i) == [d EXCEPT !.disabled = FALSE, !.cleanups[i] = @ + 1]

\* fault: the status left out of the message
ErrorTextNoStatus(status, err) == ErrorPrefix \o ColonSpace \o err
\* `Error ${res.status}: ${err}`
ErrorText(status, err) == ErrorPrefix \o ToDecimal(status) \o ColonSpace \o err

\* The page after each path of send(), in each copy.
\* fault: the empty-input return made through the cleanup of the button
DomEmptyReenables(v, d) == [d EXCEPT !.out = EmptyMsg, !.disabled = FALSE]
DomEmpty(v, d) == SetOut(d, EmptyMsg)
DomStart(v, d) == IF v = "app" THEN StartApp(d) ELSE StartPart(d)
DomErrorStatus(v, d, i, status, err) ==
    IF v = "app" THEN FinallyApp(SetOut(d, ErrorText(status, err)), i)
    ELSE FinallyPart(ReenablePart(SetOut(d, ErrorText(status, err)), i), i)
\* fault: the no-body branch returns without a message
DomNoBodyKeepsOut(v, d, i) ==
    IF v = "app" THEN FinallyApp(d, i) ELSE FinallyPart(ReenablePart(d, i), i)
DomNoBody(v, d, i) ==
    IF v = "app" THEN FinallyApp(SetOut(d, NoStreamMsg), i)
    ELSE FinallyPart(ReenablePart(SetOut(d, NoStreamMsg), i), i)
DomChunk(v, d, text) == AppendOut(d, text)
\* fault: the flushed text replaces what #out shows
DomFlushReplaces(v, d, i, text) ==
    IF v = "app" THEN FinallyApp(SetOut(d, text), i)
    ELSE FinallyPart(SetOut(d, text), i)
DomFlush(v, d, i, text) ==
    IF v = "app" THEN FinallyApp(AppendOut(d, text), i)
    ELSE FinallyPart(AppendOut(d, text), i)
\* faults: a catch block with no finally after it; a catch block that appends
\* its message to what #out shows
DomCatchNoFinally(v, d, i, e) == SetOut(d, NetErrPrefix \o CaughtText(e))
DomCatchAppends(v, d, i, e) ==
    IF v = "app" THEN FinallyApp(AppendOut(d, NetErrPrefix \o CaughtText(e)), i)
    ELSE FinallyPart(AppendOut(d, NetErrPrefix \o CaughtText(e)), i)
DomCatch(v, d, i, e) ==
    IF v = "app" THEN FinallyApp(SetOut(d, NetErrPrefix \o CaughtText(e)), i)
    ELSE FinallyPart(SetOut(d, NetErrPrefix \o CaughtText(e)), i)

\* fetch('/chat/stream', { method, headers, body })
ChatRequest(prompt) ==
    [url |-> "/chat/stream", method |-> "POST", contentType |-> "application/json",
     body |-> JsonStringify(prompt)]

\* Call i returns by `path`; every path but the empty-input one runs the cleanup,
\* under the feet of the other calls in flight.
Return(i, path) ==
    /\ pc' = [pc EXCEPT ![i] = "done"]
    /\ exit' = [exit EXCEPT ![i] = path]
    /\ released' = IF path = "empty" THEN released
                   ELSE (released \cup {j \in Calls : InFlight(j)}) \ {i}

\* The promise call i awaits is settled: the task the event loop runs.
Settled(i) == [NoEvent EXCEPT !.type = "settle", !.call = i]

\* ------------------------------------------------------------- send()
\* send() from its call to its first await or return.
Send(i) ==
    LET prompt == Trim(promptValue)
    IN  /\ overlapped' = (overlapped \/ \E j \in Calls : InFlight(j))
        /\ writers' = {i}
        /\ IF prompt = <<>>
           THEN /\ dom' = [v \in Variants |-> DomEmpty(v, dom[v])]
                /\ Return(i, "empty")
                /\ UNCHANGED <<req, did>>
           ELSE /\ dom' = [v \in Variants |-> DomStart(v, dom[v])]
                /\ pc' = [pc EXCEPT ![i] = "fetch"]
                /\ req' = [req EXCEPT ![i] = ChatRequest(prompt)]
                /\ did' = [did EXCEPT ![i].requests = @ + 1]
                /\ UNCHANGED <<exit, released>>
        /\ UNCHANGED <<promptValue, overlay, res, decoder, received, caught>>

\* Call i is the next invocation: the calls are numbered in the order they start.
IsNext(i) == pc[i] = "idle" /\ \A j \in Calls : j < i => pc[j] # "idle"

\* The user edits #prompt.
Type(value) ==
    /\ \E i \in Calls : pc[i] = "idle"
    /\ value # promptValue
    /\ promptValue' = value
    /\ event' = [NoEvent EXCEPT !.type = "input"]
    /\ UNCHANGED <<overlay, dom, pc, exit, req, res, decoder, received, did, caught,
                   writers, overlapped,
                   released>>

\* A click on #send; a disabled button dispatches none.
Click(i) ==
    /\ IsNext(i)
    /\ \A v \in Variants : ~dom[v].disabled
    /\ event' = [NoEvent EXCEPT !.type = "click", !.call = i]
    /\ Send(i)

\* send() called from a script or the console.
Call(i) ==
    /\ IsNext(i)
    /\ event' = [NoEvent EXCEPT !.type = "call", !.call = i]
    /\ Send(i)

\* fault: the listener ignores the modifiers
ListenerEnterOnly(e) == e.key = "Enter"
\* The keydown listener of #prompt.
ListenerSends(e) == e.key = "Enter" /\ (e.ctrlKey \/ e.metaKey)

KeyDown(i, key, ctrl, meta) ==
    LET e == [type |-> "keydown", key |-> key, ctrlKey |-> ctrl, metaKey |-> meta,
              call |-> i]
    IN  /\ IsNext(i)
        /\ event' = e
        /\ IF ListenerSends(e) THEN Send(i)
           ELSE UNCHANGED <<promptValue, overlay, dom, pc, exit, req, res, decoder,
                            received, did, caught, writers, overlapped,
                   released>>

\* ------------------------------------------------------------- resumptions
\* Who has text in #out after call i appended `text` to it.
WritersAfterAppend(i, text) == IF text = <<>> THEN writers ELSE writers \cup {i}

\* fetch resolves with a non-success status: send() goes on to await res.text().
FetchErrorStatus(i, status, body) ==
    /\ pc[i] = "fetch"
    /\ ~Ok(status)
    /\ pc' = [pc EXCEPT ![i] = "text"]
    /\ req' = [req EXCEPT ![i] = NoRequest]
    /\ res' = [res EXCEPT ![i] = [status |-> status, body |-> body]]
    /\ event' = Settled(i)
    /\ UNCHANGED <<promptValue, overlay, dom, exit, decoder, received, did, caught,
                   writers, overlapped,
                   released>>

\* fetch resolves with a success status and res.body null.
FetchNoBody(i, status) ==
    /\ pc[i] = "fetch"
    /\ Ok(status)
    /\ req' = [req EXCEPT ![i] = NoRequest]
    /\ dom' = [v \in Variants |-> DomNoBody(v, dom[v], i)]
    /\ writers' = {i}
    /\ Return(i, "nobody")
    /\ event' = Settled(i)
    /\ UNCHANGED <<promptValue, overlay, res, decoder, received, did, caught, overlapped>>

\* fault: one decoder kept by the script and used by every call
SharedDecoder(i) == IF i > 1 THEN decoder[i - 1] ELSE NewDecoder
\* const decoder = new TextDecoder(): each call makes its own
ReaderDecoder(i) == NewDecoder

\* fetch resolves with a success status and a body: the reader and the decoder
\* are made and the first read is awaited.
FetchStream(i, status) ==
    /\ pc[i] = "fetch"
    /\ Ok(status)
    /\ pc' = [pc EXCEPT ![i] = "read"]
    /\ req' = [req EXCEPT ![i] = NoRequest]
    /\ decoder' = [decoder EXCEPT ![i] = ReaderDecoder(i)]
    /\ did' = [did EXCEPT ![i].reads = @ + 1]
    /\ event' = Settled(i)
    /\ UNCHANGED <<promptValue, overlay, dom, exit, res, received, caught, writers,
                   overlapped,
                   released>>

\* The catch block and the finally block, for an error thrown at any await.
Catch(i, e) ==
    /\ dom' = [v \in Variants |-> DomCatch(v, dom[v], i, e)]
    /\ caught' = [caught EXCEPT ![i] = e]
    /\ writers' = {i}
    /\ req' = [req EXCEPT ![i] = NoRequest]
    /\ Return(i, "thrown")
    /\ event' = Settled(i)
    /\ UNCHANGED <<promptValue, overlay, res, decoder, received, did, overlapped>>

FetchReject(i, e) == pc[i] = "fetch" /\ Catch(i, e)
TextReject(i, e) == pc[i] = "text" /\ Catch(i, e)
ReadReject(i, e) == pc[i] = "read" /\ Catch(i, e)

\* res.text() resolves with the error body.
TextResolve(i) ==
    /\ pc[i] = "text"
    /\ dom' = [v \in Variants |->
                 DomErrorStatus(v, dom[v], i, res[i].status, res[i].body)]
    /\ writers' = {i}
    /\ Return(i, "status")
    /\ event' = Settled(i)
    /\ UNCHANGED <<promptValue, overlay, req, res, decoder, received, did, caught,
                   overlapped>>

\* reader.read() resolves with a chunk: it is decoded and appended, and the next
\* read is awaited.
ReadChunk(i, value) ==
    LET dec == Decode(decoder[i], value, TRUE)
    IN  /\ pc[i] = "read"
        /\ dom' = [v \in Variants |-> DomChunk(v, dom[v], dec.text)]
        /\ decoder' = [decoder EXCEPT ![i] = dec.st]
        /\ received' = [received EXCEPT ![i] = @ \o value]
        /\ did' = [did EXCEPT ![i].reads = @ + 1]
        /\ writers' = WritersAfterAppend(i, dec.text)
        /\ event' = Settled(i)
        /\ UNCHANGED <<promptValue, overlay, pc, exit, req, res, caught, overlapped,
                   released>>

\* fault: the read that signals done is ignored and the loop waits for another
ReadDoneIgnored(i) == pc[i] = "read" /\ UNCHANGED vars
\* reader.read() resolves with done: the decoder is flushed.
ReadDone(i) ==
    LET dec == Decode(decoder[i], <<>>, FALSE)
    IN  /\ pc[i] = "read"
        /\ dom' = [v \in Variants |-> DomFlush(v, dom[v], i, dec.text)]
        /\ decoder' = [decoder EXCEPT ![i] = dec.st]
        /\ did' = [did EXCEPT ![i].flushes = @ + 1]
        /\ writers' = WritersAfterAppend(i, dec.text)
        /\ Return(i, "flushed")
        /\ event' = Settled(i)
        /\ UNCHANGED <<promptValue, overlay, req, res, received, caught, overlapped>>

\* ------------------------------------------------------------- specification
Next ==
    \/ \E value \in PromptValues : Type(value)
    \/ \E i \in Calls : Click(i)
    \/ \E i \in Calls : Call(i)
    \/ \E i \in Calls, key \in Keys, ctrl \in BOOLEAN, meta \in BOOLEAN :
          KeyDown(i, key, ctrl, meta)
    \/ \E i \in Calls, status \in Statuses, body \in Bodies :
          FetchErrorStatus(i, status, body)
    \/ \E i \in Calls, status \in Statuses : FetchNoBody(i, status)
    \/ \E i \in Calls, status \in Statuses : FetchStream(i, status)
    \/ \E i \in Calls, e \in Thrown : FetchReject(i, e)
    \/ \E i \in Calls : TextResolve(i)
    \/ \E i \in Calls, e \in Thrown : TextReject(i, e)
    \/ \E i \in Calls : \E value \in ChunksAfter(received[i]) : ReadChunk(i, value)
    \/ \E i \in Calls : ReadDone(i)
    \/ \E i \in Calls, e \in Thrown : ReadReject(i, e)

Spec == Init /\ [][Next]_vars

\* One click, answered by a stream over a wider range of bytes.
NextStream ==
    \/ \E value \in {<<97>>} : Type(value)
    \/ Click(1)
    \/ \E status \in {200} : FetchStream(1, status)
    \/ \E value \in WideChunksAfter(received[1]) : ReadChunk(1, value)
    \/ ReadDone(1)

SpecStream == Init /\ [][NextStream]_vars

\* ------------------------------------------------------------- answered awaits
\* The promise call i awaits is settled and the event loop resumes send().
FetchSettles(i) ==
    \/ \E status \in Statuses, body \in Bodies : FetchErrorStatus(i, status, body)
    \/ \E status \in Statuses : FetchNoBody(i, status)
    \/ \E status \in Statuses : FetchStream(i, status)
    \/ \E e \in Thrown : FetchReject(i, e)
TextSettles(i) == TextResolve(i) \/ \E e \in Thrown : TextReject(i, e)

\* The environment answers every fetch and every res.text(), and every stream
\* signals done unless it fails first; send() has no timer and no abort signal,
\* so nothing else ends an await.
Answered ==
    \A i \in Calls :
        /\ WF_vars(FetchSettles(i))
        /\ WF_vars(TextSettles(i))
        /\ WF_vars(ReadDone(i))

SpecAnswered == Init /\ [][Next]_vars /\ Answered
\* ------------------------------------------------------------- properties
\* The task just run invoked send() as call i; the task just run ended with call
\* i returning by `path`.
Started(i) ==
    event.call = i /\ event.type \in {"click", "call", "keydown"} /\ pc[i] # "idle"
JustReturned(i, path) == event.call = i /\ pc[i] = "done" /\ exit[i] = path

RequestPaths == {"flushed", "status", "nobody", "thrown"}

\* Nothing but white space, or nothing at all.
IsBlank(s) == \A k \in 1..Len(s) : s[k] \in WhiteSpace

\* C1: when send() is invoked with #prompt holding only white space or nothing,
\* it returns at once with #out showing exactly 'Please enter a message.', and
\* that invocation issues no request, then or later.
C1_BlankInputNoRequest ==
    \A i \in Calls :
        /\ (Started(i) /\ IsBlank(promptValue)) =>
              /\ pc[i] = "done" /\ exit[i] = "empty"
              /\ \A v \in Variants : dom[v].out = EmptyMsg
        /\ exit[i] = "empty" => (did[i].requests = 0 /\ req[i] = NoRequest)

C1_Witness ==
    \E i \in Calls :
        /\ Started(i) /\ promptValue = <<32, 9>>
        /\ exit[i] = "empty" /\ did[i].requests = 0
        /\ dom["app"].out = EmptyMsg

\* C2: when a cycle that issued a request returns, by any of its four paths,
\* #send is enabled and the overlay, if the page has one, is hidden.
C2_CleanAfterCycle ==
    \A i \in Calls : \A path \in RequestPaths :
        JustReturned(i, path) =>
            /\ \A v \in Variants : ~dom[v].disabled
            /\ ~dom["app"].show

C2_Witness ==
    /\ overlay
    /\ exit[1] = "thrown" /\ JustReturned(2, "flushed")
    /\ ~dom["app"].disabled /\ ~dom["app"].show

\* C3 as claimed: every finished invocation, whatever its exit path, ran the
\* cleanup exactly once.
C3_CleanupOncePerInvocation ==
    \A i \in Calls : \A v \in Variants : pc[i] = "done" => dom[v].cleanups[i] = 1

\* C3 amended: the cleanup never runs before the invocation returns and never on
\* the empty-input return; app.js runs it exactly once on each of the other four
\* exit paths; the copy without overlay runs it once on stream completion and on
\* a thrown error, and twice on the error-status and no-body paths.
C3_CleanupPerExitPath ==
    \A i \in Calls :
        /\ pc[i] # "done" => \A v \in Variants : dom[v].cleanups[i] = 0
        /\ pc[i] = "done" =>
              /\ dom["app"].cleanups[i] = (IF exit[i] = "empty" THEN 0 ELSE 1)
              /\ dom["part"].cleanups[i] =
                    (CASE exit[i] = "empty" -> 0
                       [] exit[i] \in {"status", "nobody"} -> 2
                       [] OTHER -> 1)

C3_Witness ==
    /\ exit[1] = "empty" /\ dom["app"].cleanups[1] = 0
    /\ exit[2] = "status" /\ dom["app"].cleanups[2] = 1 /\ dom["part"].cleanups[2] = 2

\* C4: when a stream completes and no other invocation wrote to #out while it
\* ran, #out after the flush is the UTF-8 decoding of all the bytes received,
\* taken as one sequence, however they were cut into chunks.
C4_ChunkingInvisible ==
    \A i \in Calls :
        (JustReturned(i, "flushed") /\ writers = {i}) =>
            \A v \in Variants : dom[v].out = Decode(NewDecoder, received[i], FALSE).text

\* A byte order mark and a three-byte sequence, each cut in two: three chunks
\* and the read that signalled done; the sequence is left unfinished.
C4_Witness ==
    \E i \in Calls :
        /\ JustReturned(i, "flushed") /\ writers = {i}
        /\ received[i] = <<239, 187, 191, 226>> /\ did[i].reads = 4
        /\ dom["app"].out = Replacement

\* U+00E9 arrived cut in two: two chunks and the read that signalled done.
C4_WitnessSplit ==
    \E i \in Calls :
        /\ JustReturned(i, "flushed") /\ writers = {i}
        /\ received[i] = <<195, 169>> /\ did[i].reads = 3
        /\ dom["app"].out = <<233>>

\* C5: when res.text() of a non-success response resolves, the cycle ends with
\* #out showing exactly 'Error <status>: <body>', that invocation having made one
\* request, no read and no flush.
C5_ErrorStatusShown ==
    \A i \in Calls :
        /\ JustReturned(i, "status") =>
              /\ ~Ok(res[i].status)
              /\ \A v \in Variants :
                    dom[v].out = ErrorPrefix \o ToDecimal(res[i].status) \o ColonSpace
                                    \o res[i].body
              /\ (res[i].status = 400 /\ res[i].body # <<>>) =>
                    dom["app"].out = <<69, 114, 114, 111, 114, 32, 52, 48, 48, 58, 32, 98,
                                       97, 100, 32, 114, 101, 113, 117, 101, 115, 116>>
        /\ (pc[i] = "text" \/ exit[i] = "status") =>
              (did[i].requests = 1 /\ did[i].reads = 0 /\ did[i].flushes = 0)

C5_Witness ==
    \E i \in Calls :
        /\ JustReturned(i, "status") /\ res[i].status = 400 /\ res[i].body # <<>>
        /\ Len(dom["app"].out) = 22

\* C6: a success response without a body ends the cycle with #out showing
\* exactly 'Streaming not supported by the browser/connection.', that invocation
\* having made one request, no read and no flush.
C6_NoBodyShown ==
    \A i \in Calls :
        /\ JustReturned(i, "nobody") => \A v \in Variants : dom[v].out = NoStreamMsg
        /\ exit[i] = "nobody" =>
              (did[i].requests = 1 /\ did[i].reads = 0 /\ did[i].flushes = 0)

C6_Witness ==
    \E i \in Calls :
        JustReturned(i, "nobody") /\ dom["part"].out = NoStreamMsg /\ did[i].reads = 0

\* C7 as claimed: whatever error is caught, at whichever await, the cycle ends
\* with #out showing exactly 'Network error: ' followed by the error's message.
C7_NetworkErrorShowsMessage ==
    \A i \in Calls :
        JustReturned(i, "thrown") =>
            \A v \in Variants : dom[v].out = NetErrPrefix \o caught[i].message

\* C7 amended: for an error with a non-empty message the cycle ends with #out
\* showing exactly 'Network error: ' followed by the message, replacing whatever
\* chunks were shown before; for an error whose message is empty, what follows the
\* prefix is the error converted to a string, which is its name.
C7_NetworkErrorShown ==
    \A i \in Calls :
        JustReturned(i, "thrown") =>
            \A v \in Variants :
                dom[v].out = NetErrPrefix \o
                    (IF caught[i].message # <<>> THEN caught[i].message
                     ELSE caught[i].name)

\* 'Network error: timeout' after a chunk had been shown.
C7_Witness ==
    \E i \in Calls :
        /\ JustReturned(i, "thrown") /\ received[i] = <<97>>
        /\ caught[i].message = MsgTimeout
        /\ dom["app"].out = <<78, 101, 116, 119, 111, 114, 107, 32, 101, 114, 114, 111,
                              114, 58, 32, 116, 105, 109, 101, 111, 117, 116>>

\* C8: a keydown in #prompt invokes send() exactly when the key is Enter with
\* Ctrl or Meta held; a click on #send always invokes it.
C8_KeyDownSendsIffAccelerated ==
    /\ event.type = "keydown" =>
          (pc[event.call] # "idle" <=>
              (event.key = "Enter" /\ (event.ctrlKey \/ event.metaKey)))
    /\ event.type = "click" => pc[event.call] # "idle"

C8_Witness ==
    /\ event.type = "keydown" /\ event.key = "Enter" /\ event.metaKey /\ ~event.ctrlKey
    /\ pc[event.call] = "fetch"
    /\ \E i \in Calls : pc[i] = "idle"

\* Enter alone: nothing started.
C8_WitnessPlainEnter ==
    /\ event.type = "keydown" /\ event.key = "Enter" /\ ~event.metaKey /\ ~event.ctrlKey
    /\ pc[event.call] = "idle" /\ promptValue = <<97>>

\* C9 as claimed: in every reachable state #out holds text of at most one
\* invocation.
C9_OneWriterAlways == Cardinality(writers) <= 1

\* C9 amended: as long as send() has never been invoked while an earlier cycle
\* was still in flight, #out holds the output of at most one invocation: it is
\* empty from the start of a request until its first chunk, and while the stream
\* is read it is exactly the decoding of the bytes that request has received.
C9_OneWriterUnlessOverlapped ==
    ~overlapped =>
        /\ Cardinality(writers) <= 1
        /\ \A i \in Calls : \A v \in Variants :
              /\ pc[i] \in {"fetch", "text"} => dom[v].out = <<>>
              /\ pc[i] = "read" =>
                    dom[v].out = Decode(NewDecoder, received[i], TRUE).text

\* The second of two cycles run one after the other is streaming.
C9_Witness ==
    /\ ~overlapped
    /\ exit[1] = "flushed" /\ received[1] # <<>>
    /\ pc[2] = "read" /\ received[2] = <<97>> /\ dom["app"].out = <<97>>
    /\ writers = {2}

\* What a JSON parser reads from the inside of a string literal; -1 marks text
\* that is no string literal.
HexValue(c) ==
    IF c \in 48..57 THEN c - 48
    ELSE IF c \in 97..102 THEN c - 87
    ELSE IF c \in 65..70 THEN c - 55 ELSE -1

RECURSIVE JsonUnquote(_)
JsonUnquote(s) ==
    IF s = <<>> THEN <<>>
    ELSE IF Head(s) = 34 \/ Head(s) < 32 THEN <<-1>>
    ELSE IF Head(s) # 92 THEN <<Head(s)>> \o JsonUnquote(Tail(s))
    ELSE IF Len(s) < 2 THEN <<-1>>
    ELSE LET c == s[2]
             rest == SubSeq(s, 3, Len(s))
         IN  CASE c \in {34, 92, 47} -> <<c>> \o JsonUnquote(rest)
               [] c = 98  -> <<8>> \o JsonUnquote(rest)
               [] c = 116 -> <<9>> \o JsonUnquote(rest)
               [] c = 110 -> <<10>> \o JsonUnquote(rest)
               [] c = 102 -> <<12>> \o JsonUnquote(rest)
               [] c = 114 -> <<13>> \o JsonUnquote(rest)
               [] c = 117 /\ Len(s) >= 6 /\ \A k \in 3..6 : HexValue(s[k]) >= 0 ->
                     <<HexValue(s[3]) * 4096 + HexValue(s[4]) * 256
                         + HexValue(s[5]) * 16 + HexValue(s[6])>>
                       \o JsonUnquote(SubSeq(s, 7, Len(s)))
               [] OTHER -> <<-1>>

\* The prompt member a server parses out of a request body of the form
\* {"prompt":"..."}.
JsonPromptOf(body) ==
    LET n == Len(JsonOpen)
    IN  IF /\ Len(body) >= n + 3
           /\ SubSeq(body, 1, n + 1) = JsonOpen \o <<34>>
           /\ SubSeq(body, Len(body) - 1, Len(body)) = <<34>> \o JsonClose
        THEN JsonUnquote(SubSeq(body, n + 2, Len(body) - 2))
        ELSE <<-1>>

\* C10: an invocation with a non-blank #prompt issues one POST to /chat/stream
\* with content type application/json whose body parses to the trimmed input,
\* and no invocation ever issues a second request.
C10_OneRequestPerInvocation ==
    \A i \in Calls :
        /\ (Started(i) /\ ~IsBlank(promptValue)) =>
              /\ pc[i] = "fetch"
              /\ req[i].url = "/chat/stream" /\ req[i].method = "POST"
              /\ req[i].contentType = "application/json"
              /\ JsonPromptOf(req[i].body) = Trim(promptValue)
        /\ did[i].requests <= 1
        /\ (InFlight(i) \/ exit[i] \in RequestPaths) => did[i].requests = 1
        /\ pc[i] # "fetch" => req[i] = NoRequest

\* ' a " ' is sent as 'a "', the quote escaped.
C10_Witness ==
    \E i \in Calls :
        /\ Started(i) /\ promptValue = <<32, 97, 32, 34, 32>>
        /\ req[i].body = JsonOpen \o <<34, 97, 32, 92, 34, 34>> \o JsonClose
        /\ did[i].requests = 1

\* ---------------------------------------------------------------------------
\* The button and the overlay while a cycle is in flight.

\* The button is disabled in both copies and the overlay, if the page has one,
\* is shown.
Busy ==
    /\ \A v \in Variants : dom[v].disabled
    /\ overlay => dom["app"].show

\* C11 as stated: whenever a cycle is in flight the button is disabled and the
\* overlay, if present, is visible, also when another cycle overlaps it and
\* finishes first.
C11_BusyWhileInFlight == \A i \in Calls : InFlight(i) => Busy

\* C11: whenever a cycle is in flight and no other cycle has run its cleanup
\* since it started, the button is disabled and the overlay, if present, is
\* visible.
C11_BusyUntilReleased ==
    \A i \in Calls : (InFlight(i) /\ i \notin released) => Busy

\* Two cycles in flight at once, the second started by the keyboard or by a
\* call, none finished yet.
C11_Witness ==
    /\ pc[1] = "read" /\ pc[2] = "fetch" /\ released = {}
    /\ overlay /\ Busy

\* ---------------------------------------------------------------------------
\* Call i has returned by one of the four paths of a request, its cleanup run in
\* both copies.
Ended(i) ==
    /\ pc[i] = "done" /\ exit[i] \in RequestPaths
    /\ \A v \in Variants : dom[v].cleanups[i] >= 1

\* C12: once a request has been issued, and provided the environment answers the
\* fetch and the reads and the stream signals done, the cycle ends by exactly
\* one of stream completion, HTTP error, no body or network failure, with its
\* cleanup done.
C12_CycleEnds == \A i \in Calls : InFlight(i) ~> Ended(i)

\* A cycle that went through two reads and ended by stream completion.
C12_Witness ==
    \E i \in Calls : Ended(i) /\ exit[i] = "flushed" /\ did[i].reads >= 2

\* ---------------------------------------------------------------------------
\* What the chunks of call i decode to while streaming, and what the flush after
\* them gives.
StreamedText(i) == Decode(NewDecoder, received[i], TRUE).text
FlushedText(i) == Decode(Decode(NewDecoder, received[i], TRUE).st, <<>>, FALSE).text

\* C13: an invocation flushes the decoder once if it returns by the
\* success-with-body path and never otherwise; the flush comes after the read
\* that signals done and after every chunk append, nothing being read or
\* appended by the invocation after it; and its result is appended to the text
\* the chunks left in #out.
C13_FlushOnceAfterDone ==
    \A i \in Calls :
        /\ did[i].flushes = IF exit[i] = "flushed" THEN 1 ELSE 0
        /\ did[i].flushes = 1 =>
              /\ pc[i] = "done"
              /\ did[i].reads >= 1 /\ did[i].reads <= Len(received[i]) + 1
        /\ (JustReturned(i, "flushed") /\ writers = {i}) =>
              \A v \in Variants : dom[v].out = StreamedText(i) \o FlushedText(i)

\* 'a' and an unfinished two-byte sequence: the flush appends U+FFFD to the 'a'.
C13_Witness ==
    \E i \in Calls :
        /\ JustReturned(i, "flushed") /\ writers = {i} /\ did[i].flushes = 1
        /\ StreamedText(i) = <<97>> /\ FlushedText(i) = Replacement
        /\ dom["part"].out = <<97>> \o Replacement

\* ---------------------------------------------------------------------------
\* What #out shows at the end of a cycle that nothing else has written into, from
\* that cycle's response alone.
OwnText(i) ==
    CASE exit[i] = "status" -> ErrorText(res[i].status, res[i].body)
      [] exit[i] = "nobody" -> NoStreamMsg
      [] exit[i] = "thrown" -> NetErrPrefix \o CaughtText(caught[i])
      [] exit[i] = "flushed" -> Decode(NewDecoder, received[i], FALSE).text
      [] OTHER -> EmptyMsg

\* C14: when cycles run one after the other, the text shown at the end of a
\* later cycle is a function of that cycle's response only: the bytes an earlier
\* stream left unfinished in its decoder, the earlier text and the earlier
\* button and overlay state have no part in it.
C14_LaterCycleOwnText ==
    \A i \in Calls :
        (/\ i > 1 /\ ~overlapped
         /\ \A j \in 1..(i - 1) : pc[j] = "done"
         /\ \E path \in RequestPaths : JustReturned(i, path)) =>
            \A v \in Variants : dom[v].out = OwnText(i)

\* The first stream failed with the lead byte of a two-byte sequence pending;
\* the continuation byte opening the second stream is malformed on its own.
C14_Witness ==
    /\ ~overlapped
    /\ pc[1] = "done" /\ exit[1] = "thrown" /\ received[1] = <<195>>
    /\ JustReturned(2, "flushed") /\ received[2] = <<169>>
    /\ \A v \in Variants : dom[v].out = Replacement

\* ---------------------------------------------------------------------------
\* C15: the two copies of send() are observationally equivalent apart from the
\* overlay: driven by the same triggers and the same server and network events,
\* they show the same output text and the same disabled flag at every
\* suspension point and at the end of every cycle, although the copy without
\* overlay re-enables the button in its error-status and no-body branches as
\* well as in its finally block.
C15_CopiesAgree ==
    /\ dom["app"].out = dom["part"].out
    /\ dom["app"].disabled = dom["part"].disabled

\* An error-status cycle has just ended: the copy without overlay re-enabled the
\* button twice, the other once, and they show the same page.
C15_Witness ==
    \E i \in Calls :
        /\ JustReturned(i, "status")
        /\ dom["part"].cleanups[i] = 2 /\ dom["app"].cleanups[i] = 1
        /\ dom["app"].out = dom["part"].out /\ dom["app"].out # <<>>
        /\ ~dom["app"].disabled /\ ~dom["part"].disabled

\* ---------------------------------------------------------------------------
\* C16: on a page with the overlay, whenever control is back in the event loop
\* the overlay is visible if and only if the button is disabled, however the
\* invocations of send() overlap.
C16_OverlayIffDisabled == overlay => (dom["app"].show <=> dom["app"].disabled)

\* Two cycles overlapped and the later one has ended: button enabled and overlay
\* hidden while the earlier one is still reading.
C16_Witness ==
    /\ overlay /\ pc[1] = "read" /\ exit[2] \in RequestPaths
    /\ ~dom["app"].show /\ ~dom["app"].disabled

\* ---------------------------------------------------------------------------
\* The step by which invocation i is rejected for empty input.
RejectedEmpty(i) == pc[i] = "idle" /\ pc'[i] = "done" /\ exit'[i] = "empty"

\* C17: an invocation rejected for empty input changes nothing but the output
\* text: in both copies the disabled flag and the overlay's visibility are left
\* as they were, also while another cycle is in flight and the button is
\* disabled, no cleanup is counted, and no request, read or flush is made.
C17_EmptyRejectionFrame ==
    [][\A i \in Calls :
          RejectedEmpty(i) =>
              /\ \A v \in Variants :
                    /\ dom'[v].disabled = dom[v].disabled
                    /\ dom'[v].show = dom[v].show
                    /\ dom'[v].cleanups = dom[v].cleanups
                    /\ dom'[v].out = EmptyMsg
              /\ did' = did /\ did[i] = [requests |-> 0, reads |-> 0, flushes |-> 0]
              /\ req' = req /\ res' = res
              /\ decoder' = decoder /\ received' = received
              /\ \A j \in Calls \ {i} : pc'[j] = pc[j]]_vars

\* An invocation has just been rejected for empty input while an earlier cycle
\* is reading its stream: the button is still disabled and the overlay shown.
C17_Witness ==
    \E i \in Calls :
        /\ Started(i) /\ exit[i] = "empty" /\ did[i].requests = 0
        /\ \E j \in Calls : pc[j] = "read" /\ j \notin released
        /\ overlay /\ Busy
        /\ dom["app"].out = EmptyMsg

====
